---- MODULE Spec2Model ----
(***************************************************************************)
(* Model of the crawl engine of backend/server.js: getLocalFilePathForPage *)
(* (Path Mapper), fetchPageAndAssets (Page Fetcher) and startCrawl         *)
(* (frontier loop, link rewriting pass, manifest).                         *)
(*                                                                         *)
(* Strings are sequences of tokens.  A token is one character, except for  *)
(* a few multi-character atoms whose inner structure the code never looks  *)
(* at: the scheme-and-authority prefix of an absolute URL ("h" stands for  *)
(* "https://h", "x" for "https://x"), "data:", "http://[" (an absolute     *)
(* reference with an invalid host, on which new URL throws), and the file  *)
(* name atoms "index.html", "_manifest.json", "assets", "image-", ".jpg",  *)
(* "..", "archive".                                                        *)
(***************************************************************************)
EXTENDS Integers, Sequences, FiniteSets, TLC

\* ------------------------------------------------------------------ bounds
MaxBudget == 3
MaxDocElems == 2
MaxSiteElems == 3

\* ----------------------------------------------------------------- strings
HostTokens == {"h", "x"}
SchemeTokens == {"data:"}
Malformed == <<"http://[">>

CharCode(c) ==
    CASE c = "#" -> 35
      [] c = "." -> 46
      [] c = "/" -> 47
      [] c = "?" -> 63
      [] c = "_" -> 95
      [] c = "a" -> 97
      [] c = "b" -> 98
      [] c = "c" -> 99
      [] c = "h" -> 104
      [] c = "x" -> 120
      [] OTHER -> 0

\* F applied to the value of a.  (TLC evaluates the argument of an operator
\* anew at each use when it evaluates ENABLED; a is evaluated once here.)
Once(F(_), a) == CHOOSE r \in {F(x) : x \in {a}} : TRUE

\* The position of the first token of str that is in cs, Len(str)+1 when none is.
FirstIdx(str, cs) ==
    LET F(s) ==
            IF \E i \in 1..Len(s) : s[i] \in cs
            THEN CHOOSE i \in 1..Len(s) : s[i] \in cs /\ \A j \in 1..(i-1) : s[j] \notin cs
            ELSE Len(s) + 1
    IN Once(F, str)

\* s.startsWith(p)
StartsWith(s, p) == Len(s) >= Len(p) /\ SubSeq(s, 1, Len(p)) = p

\* a < b in the order of String.prototype comparison (UTF-16 code units).
RECURSIVE StrLess(_, _)
StrLess(a, b) ==
    IF b = <<>> THEN FALSE
    ELSE IF a = <<>> THEN TRUE
    ELSE IF CharCode(a[1]) # CharCode(b[1]) THEN CharCode(a[1]) < CharCode(b[1])
    ELSE StrLess(Tail(a), Tail(b))

\* -------------------------------------------------------------------- URLs
\* The WHATWG URL record of a parsed string: ok = FALSE when new URL throws.
BadUrl ==
    [ok |-> FALSE, origin |-> "", hostname |-> "", pathname |-> <<>>, search |-> <<>>,
     hash |-> <<>>]

\* The components of the part of an absolute string after its authority.
UrlOf(origin, str) ==
    LET F(rest) ==
            LET q == FirstIdx(rest, {"?", "#"})
                f == FirstIdx(rest, {"#"})
                p == SubSeq(rest, 1, q - 1)
            IN [ok |-> TRUE,
                origin |-> origin,
                hostname |-> IF origin \in HostTokens THEN origin ELSE "",
                pathname |-> IF p = <<>> /\ origin \in HostTokens THEN <<"/">> ELSE p,
                search |-> SubSeq(rest, q, f - 1),
                hash |-> SubSeq(rest, f, Len(rest))]
    IN Once(F, str)

\* new URL(s)
NewUrl(s) ==
    IF s = <<>> \/ s = Malformed THEN BadUrl
    ELSE IF s[1] \in HostTokens \cup SchemeTokens THEN UrlOf(s[1], Tail(s))
    ELSE BadUrl

\* The strings the sites of this model are written with, and their hrefs.
SiteStrings ==
    LET written == { <<"h">>, <<"h", "/", "a">>, <<"h", "/", "a", "/">>, <<"x", "/", "a">>,
                     <<"h", "/", "b", ".", "c">>, <<"#", "a">>, Malformed }
    IN written \cup { <<NewUrl(w).origin>> \o NewUrl(w).pathname :
                        w \in {x \in written : NewUrl(x).ok} }

\* NewUrl tabulated on SiteStrings
ParsedUrls == [s \in SiteStrings |-> NewUrl(s)]

\* The site crawled: the elements its documents are made of (elems), how many
\* of them the session is served in all (maxElems), and what new URL gives for
\* the strings the site is written with (urls, computed once per session).
VARIABLE site

\* new URL(s), looked up in the table where the table has it
ParseUrl(s) == IF s \in DOMAIN site.urls THEN site.urls[s] ELSE NewUrl(s)

\* new URL(link, base), for a base that parses: an absolute reference stands for
\* itself, "#..." replaces the base's fragment, "/..." replaces the base's path.
ResolveUrl(link, base) ==
    LET b == ParseUrl(base)
    IN IF link = <<>> THEN [b EXCEPT !.hash = <<>>]
       ELSE IF link[1] = "#" THEN [b EXCEPT !.hash = link]
       ELSE IF link[1] = "/" THEN UrlOf(b.origin, link)
       ELSE ParseUrl(link)

\* url.href: the serialisation of a parsed URL.
Href(u) == <<u.origin>> \o u.pathname \o u.search \o u.hash

\* str.split('#')[0]
BeforeHash(str) ==
    LET F(s) == SubSeq(s, 1, FirstIdx(s, {"#"}) - 1)
    IN Once(F, str)

\* ------------------------------------------------------------------- paths
\* A file path is a sequence of segments, a segment is a string.
archivePath == << <<"archive">> >>

\* s.replace(/^\/|\/$/g, '')
StripSlashes(str) ==
    LET Leading(s) == IF s # <<>> /\ s[1] = "/" THEN Tail(s) ELSE s
        Trailing(t) == IF t # <<>> /\ t[Len(t)] = "/" THEN SubSeq(t, 1, Len(t) - 1) ELSE t
    IN Once(Trailing, Once(Leading, str))

\* s.replace(/[...]/g, '_') for the character class cs
ReplaceChars(str, cs) ==
    LET F(s) == [i \in 1..Len(s) |-> IF s[i] \in cs THEN "_" ELSE s[i]]
    IN Once(F, str)

PageUnsafe == {"<", ">", ":", "\"", "/", "\\", "|", "?", "*"}
AssetUnsafe == {"/", "?", "%", "*", ":", "|", "\"", "<", ">"}

\* path.extname(name) for a name without separators: the text from the last
\* "." on, empty when there is no "." past the first character.
ExtName(str) ==
    LET F(name) ==
            IF name = <<".", ".">> \/ ~(\E i \in 2..Len(name) : name[i] = ".") THEN <<>>
            ELSE LET k == CHOOSE i \in 2..Len(name) :
                             name[i] = "." /\ \A j \in (i+1)..Len(name) : name[j] # "."
                 IN SubSeq(name, k, Len(name))
    IN Once(F, str)

\* the pageFilename of getLocalFilePathForPage after sanitising
PageFilename(pageUrl) == ReplaceChars(StripSlashes(ParseUrl(pageUrl).pathname), PageUnsafe)

getLocalFilePathForPage(pageUrl, start, root) ==
    LET F(pageFilename) ==
            IF pageFilename = <<>> \/ ParseUrl(pageUrl).hostname # ParseUrl(start).hostname
            THEN root \o << <<"index.html">> >>
            ELSE IF ExtName(pageFilename) = <<>>
            THEN root \o << pageFilename, <<"index.html">> >>
            ELSE root \o << pageFilename >>
    IN Once(F, PageFilename(pageUrl))

\* path.dirname(p)
DirName(p) == SubSeq(p, 1, Len(p) - 1)

\* the length of the longest common prefix of two paths
CommonLen(from, to) ==
    LET F(pq) ==
            LET p == pq[1]
                q == pq[2]
                m == IF Len(p) < Len(q) THEN Len(p) ELSE Len(q)
            IN CHOOSE k \in 0..m :
                   /\ \A i \in 1..k : p[i] = q[i]
                   /\ k = m \/ p[k + 1] # q[k + 1]
    IN Once(F, <<from, to>>)

\* the segments from position i on, joined by "/"
RECURSIVE JoinFrom(_, _)
JoinFrom(segs, i) ==
    IF i > Len(segs) THEN <<>>
    ELSE IF i = Len(segs) THEN segs[i]
    ELSE segs[i] \o <<"/">> \o JoinFrom(segs, i + 1)

JoinSegs(path) ==
    LET F(segs) == JoinFrom(segs, 1)
    IN Once(F, path)

\* path.relative(from, to) as a string (the separator is already "/")
PathRelative(fromPath, toPath) ==
    LET F(ft) ==
            LET from == ft[1]
                to == ft[2]
                c == CommonLen(from, to)
            IN JoinSegs([i \in 1..(Len(from) - c) |-> <<"..">>] \o SubSeq(to, c + 1, Len(to)))
    IN Once(F, <<fromPath, toPath>>)

\* --------------------------------------------------------------- documents
\* An element of a served document: an anchor (attribute href) or an image
\* (attribute src).  ref is the current value of the attribute, orig the value
\* the site served, rew what the crawler did to it: "served" (untouched),
\* "asset" (src set to the saved asset), "local" or "live" (href rewritten in
\* pass 2 to a relative path or to the absolute URL).
Elem(tag, ref) == [tag |-> tag, ref |-> ref, orig |-> ref, rew |-> "served"]

AnchorHrefs ==
    { <<"h">>,
      <<"h", "/", "a">>,
      <<"h", "/", "a", "/">>,
      <<"x", "/", "a">>,
      <<"#", "a">>,
      Malformed }

ImgSrcs == { <<"h", "/", "b", ".", "c">>, Malformed }

Elems == {Elem("a", r) : r \in AnchorHrefs} \cup {Elem("img", r) : r \in ImgSrcs}

StartUrls == { <<"h">>, <<"h", "/", "a">> }

\* the documents of at most k elements (and at most MaxDocElems) drawn from elems
DocsUpTo(elems, k) ==
    UNION {[1..n -> elems] : n \in 0..(IF k < MaxDocElems THEN k ELSE MaxDocElems)}

\* ------------------------------------------------------------------- state
VARIABLES
    startUrl,          \* startCrawl's argument
    maxPagesToCrawl,   \* startCrawl's argument
    queue,             \* the frontier, a sequence of URL strings
    visited,           \* the visited Set, in insertion order
    pageDataMap,       \* the Map url -> { $ }, in insertion order
    pc,                \* where startCrawl stands
    cur,               \* the fetch in progress: its url, document and links
    idx,               \* pass 2: the position in pageDataMap.entries()
    inflight,          \* asset downloads that have not settled
    disk,              \* the files of the session directory: path, kind, source URL
    manifest,          \* the manifests written to _manifest.json, in order
    fetchLog,          \* the calls of fetchPageAndAssets, what they returned and
                       \* whether a file write of theirs failed
    enqLog             \* the URLs put on the queue, in order (the seed included)

vars == <<site, startUrl, maxPagesToCrawl, queue, visited, pageDataMap, pc, cur, idx,
          inflight, disk, manifest, fetchLog, enqLog>>

NoCur == [url |-> <<>>, doc |-> <<>>, links |-> <<>>]

\* the elements of a sequence as a set
Range(s) == {s[i] : i \in 1..Len(s)}

\* mutant: the membership tests never find the element
Has_Never(seq, x) == FALSE

\* Set.prototype.has / Array.prototype.includes
Has(seq, x) == \E i \in 1..Len(seq) : seq[i] = x

\* Set.prototype.add: insertion order, no duplicate
SetAdd(seq, x) == IF Has(seq, x) THEN seq ELSE Append(seq, x)

\* mutant: the snapshot of a fetched page is not stored
MapSet_Dropped(m, k, v) == m

\* Map.prototype.set: a new key goes last, an old key keeps its place
MapSet(m, k, v) ==
    IF \E i \in 1..Len(m) : m[i].url = k
    THEN [i \in 1..Len(m) |-> IF m[i].url = k THEN [url |-> k, doc |-> v] ELSE m[i]]
    ELSE Append(m, [url |-> k, doc |-> v])

\* [...new Set(links)]
RECURSIVE Dedup(_)
Dedup(s) ==
    IF s = <<>> THEN <<>>
    ELSE LET d == Dedup(SubSeq(s, 1, Len(s) - 1))
         IN SetAdd(d, s[Len(s)])

\* the number of elements of the documents held in the snapshot store
RECURSIVE ElemsHeld(_)
ElemsHeld(m) == IF m = <<>> THEN 0 ELSE Len(m[1].doc) + ElemsHeld(Tail(m))

Init ==
    /\ site = [elems |-> Elems, maxElems |-> MaxSiteElems, urls |-> ParsedUrls]
    /\ startUrl \in StartUrls
    /\ maxPagesToCrawl \in 1..MaxBudget
    /\ queue = <<startUrl>>
    /\ enqLog = <<startUrl>>
    /\ visited = <<>>
    /\ pageDataMap = <<>>
    /\ pc = "loop"
    /\ cur = NoCur
    /\ idx = 0
    /\ inflight = {}
    /\ disk = {}
    /\ manifest = <<>>
    /\ fetchLog = <<>>

\* --------------------------------------------------------- fetchPageAndAssets
\* mutant: the src of an image is taken for a link as the href of an anchor is
RECURSIVE LinksOf_AnyTag(_, _, _)
LinksOf_AnyTag(doc, url, start) ==
    IF doc = <<>> THEN <<>>
    ELSE LET el == doc[1]
             u == ResolveUrl(el.ref, url)
             absoluteLink == BeforeHash(Href(u))
             rest == LinksOf_AnyTag(Tail(doc), url, start)
         IN IF el.ref # <<>> /\ u.ok
               /\ ParseUrl(absoluteLink).hostname = ParseUrl(start).hostname
            THEN <<absoluteLink>> \o rest
            ELSE rest

\* mutant: the hostname of a discovered link is not compared with the start domain
RECURSIVE LinksOf_AnyHost(_, _, _)
LinksOf_AnyHost(doc, url, start) ==
    IF doc = <<>> THEN <<>>
    ELSE LET el == doc[1]
             u == ResolveUrl(el.ref, url)
             rest == LinksOf_AnyHost(Tail(doc), url, start)
         IN IF el.tag = "a" /\ el.ref # <<>> /\ u.ok
            THEN <<BeforeHash(Href(u))>> \o rest
            ELSE rest

\* The same-domain links of the anchors of a document, in document order.
RECURSIVE LinksOf(_, _, _)
LinksOf(doc, url, start) ==
    IF doc = <<>> THEN <<>>
    ELSE LET el == doc[1]
             u == ResolveUrl(el.ref, url)
             absoluteLink == BeforeHash(Href(u))
             rest == LinksOf(Tail(doc), url, start)
         IN IF el.tag = "a" /\ el.ref # <<>> /\ u.ok
               /\ ParseUrl(absoluteLink).hostname = ParseUrl(start).hostname
            THEN <<absoluteLink>> \o rest
            ELSE rest

\* the safePageIdentifier of a page
SafePageIdentifier(url) ==
    LET p == StripSlashes(ParseUrl(url).pathname)
    IN ReplaceChars(IF p = <<>> THEN <<"index">> ELSE p, AssetUnsafe)

\* the index of the first image whose src new URL() rejects, 0 when there is none:
\* there the .each callback throws and fetchPageAndAssets returns null
ThrowsAt(doc, url) ==
    LET bad == {i \in 1..Len(doc) : doc[i].tag = "img" /\ ~ResolveUrl(doc[i].ref, url).ok}
    IN IF bad = {} THEN 0 ELSE CHOOSE i \in bad : \A j \in bad : i <= j

\* the value of ++counters.img at element i
ImgCount(doc, i) == Cardinality({j \in 1..i : doc[j].tag = "img"})

\* path.basename(p) of a "/"-separated string
BaseName(str) ==
    LET Trailing(p) == IF p # <<>> /\ p[Len(p)] = "/" THEN SubSeq(p, 1, Len(p) - 1) ELSE p
        Last(t) ==
            LET sl == {i \in 1..Len(t) : t[i] = "/"}
                k == IF sl = {} THEN 0 ELSE CHOOSE i \in sl : \A j \in sl : j <= i
            IN SubSeq(t, k + 1, Len(t))
    IN Once(Last, Once(Trailing, str))

\* the filename of the image at element i: image-<n><extension>
ImgFilename(doc, url, i) ==
    LET extension == ExtName(BaseName(ResolveUrl(doc[i].ref, url).pathname))
    IN <<"image-", ToString(ImgCount(doc, i))>>
           \o (IF extension = <<>> THEN <<".jpg">> ELSE extension)

\* the asset downloads the .each callback has pushed for the elements before n
AssetTasks(doc, url, n, fetchNo) ==
    { [fetch |-> fetchNo, idx |-> i, page |-> url,
       path |-> archivePath
                  \o << <<"assets">>, SafePageIdentifier(url), ImgFilename(doc, url, i) >>]
      : i \in {j \in 1..(n - 1) : doc[j].tag = "img" /\ doc[j].ref # <<>>
                                   /\ ~StartsWith(doc[j].ref, <<"data:">>)} }

\* fs.writeFile / fs.writeFileSync: the file at path p is created or replaced
DiskWrite(d, p, kind, url) ==
    {f \in d : f.path # p} \cup {[path |-> p, kind |-> kind, url |-> url]}

\* the last call of fetchPageAndAssets returns r; got tells whether its
\* axios.get(url) had resolved with the document
SetResult(log, got, r) == [log EXCEPT ![Len(log)].got = got, ![Len(log)].result = r]

\* ---------------------------------------------------------- pass 1 (crawl)
\* mutant: the budget is compared with <= instead of <
LoopCondition_OffByOne(q, v, max) == Len(q) > 0 /\ Len(v) <= max

\* while (queue.length > 0 && visited.size < maxPagesToCrawl)
LoopCondition(q, v, max) == Len(q) > 0 /\ Len(v) < max

\* mutant: the loop reads the head of the queue without removing it
Dequeue_NoShift ==
    /\ pc = "loop"
    /\ LoopCondition(queue, visited, maxPagesToCrawl)
    /\ queue' = queue
    /\ IF Has(visited, Head(queue))
       THEN /\ pc' = "loop"
            /\ UNCHANGED <<cur, fetchLog>>
       ELSE /\ pc' = "get"
            /\ cur' = [NoCur EXCEPT !.url = Head(queue)]
            /\ fetchLog' = Append(fetchLog,
                                [url |-> Head(queue), got |-> FALSE, result |-> "pending",
                                 fsError |-> FALSE])
    /\ UNCHANGED <<site, enqLog, startUrl, maxPagesToCrawl, idx, visited, pageDataMap, inflight,
                   disk, manifest>>

\* queue.shift(); if (visited.has(currentUrl)) continue; else call the fetcher
Dequeue ==
    /\ pc = "loop"
    /\ LoopCondition(queue, visited, maxPagesToCrawl)
    /\ queue' = Tail(queue)
    /\ IF Has(visited, Head(queue))
       THEN /\ pc' = "loop"
            /\ UNCHANGED <<cur, fetchLog>>
       ELSE /\ pc' = "get"
            /\ cur' = [NoCur EXCEPT !.url = Head(queue)]
            /\ fetchLog' = Append(fetchLog,
                                [url |-> Head(queue), got |-> FALSE, result |-> "pending",
                                 fsError |-> FALSE])
    /\ UNCHANGED <<site, enqLog, startUrl, maxPagesToCrawl, idx, visited, pageDataMap, inflight,
                   disk, manifest>>

\* mutant: a failed page is put back on the queue
OnFetchNull_Requeue(got) ==
    /\ pc' = "loop"
    /\ cur' = NoCur
    /\ fetchLog' = SetResult(fetchLog, got, "null")
    /\ queue' = Append(queue, cur.url)
    /\ UNCHANGED <<visited, pageDataMap>>

\* mutant: a page is marked visited before the result of its fetch is looked at
OnFetchNull_MarkVisited(got) ==
    /\ pc' = "loop"
    /\ cur' = NoCur
    /\ fetchLog' = SetResult(fetchLog, got, "null")
    /\ visited' = SetAdd(visited, cur.url)
    /\ UNCHANGED <<queue, pageDataMap>>

\* what the frontier loop does when fetchPageAndAssets returned null: continue
OnFetchNull(got) ==
    /\ pc' = "loop"
    /\ cur' = NoCur
    /\ fetchLog' = SetResult(fetchLog, got, "null")
    /\ UNCHANGED <<queue, visited, pageDataMap>>

\* axios.get(url) rejects (timeout, DNS, non-2xx): the catch returns null
GetFail ==
    /\ pc = "get"
    /\ OnFetchNull(FALSE)
    /\ UNCHANGED <<site, enqLog, startUrl, maxPagesToCrawl, idx, inflight, disk, manifest>>

\* axios.get(url) resolves with a document; the links are discovered and the
\* asset downloads are issued.  An image whose src does not parse makes the
\* .each callback throw: the downloads issued so far stay in flight and the
\* catch returns null.
GetOk ==
    /\ pc = "get"
    /\ \E doc \in DocsUpTo(site.elems, site.maxElems - ElemsHeld(pageDataMap)) :
            LET n == ThrowsAt(doc, cur.url)
                fetchNo == Len(fetchLog)
            IN IF n > 0
               THEN /\ inflight' = inflight \cup AssetTasks(doc, cur.url, n, fetchNo)
                    /\ OnFetchNull(TRUE)
               ELSE /\ inflight' = inflight \cup AssetTasks(doc, cur.url, Len(doc) + 1, fetchNo)
                    /\ cur' = [url |-> cur.url, doc |-> doc,
                               links |-> Dedup(LinksOf(doc, cur.url, startUrl))]
                    /\ pc' = "assets"
                    /\ UNCHANGED <<queue, visited, pageDataMap, fetchLog>>
    /\ UNCHANGED <<site, enqLog, startUrl, maxPagesToCrawl, idx, disk, manifest>>

\* the document of task t is still the one being fetched
Current(t) == pc = "assets" /\ t.fetch = Len(fetchLog)

\* an asset download resolves and its file is written: the element's src becomes
\* the path of the file relative to the directory of the page's file
AssetSaved ==
    \E t \in inflight :
        /\ inflight' = inflight \ {t}
        /\ disk' = DiskWrite(disk, t.path, "asset", t.page)
        /\ cur' = IF Current(t)
                  THEN [cur EXCEPT !.doc[t.idx].ref =
                            PathRelative(
                                DirName(getLocalFilePathForPage(t.page, startUrl, archivePath)),
                                t.path),
                                   !.doc[t.idx].rew = "asset"]
                  ELSE cur
        /\ UNCHANGED <<site, enqLog, startUrl, maxPagesToCrawl, idx, queue, visited, pageDataMap,
                       pc, manifest,
                       fetchLog>>

\* an asset download rejects: the .catch logs it and the promise resolves
AssetFailed ==
    \E t \in inflight :
        /\ inflight' = inflight \ {t}
        /\ UNCHANGED <<site, enqLog, startUrl, maxPagesToCrawl, idx, queue, visited, pageDataMap,
                       pc, cur, disk,
                       manifest, fetchLog>>

\* an asset download resolves but ensureDirSync or writeFileSync throws in the
\* .then: the same .catch logs it as a download that failed and the promise
\* resolves.  The log of the call keeps that a write failed.
AssetWriteFails ==
    \E t \in inflight :
        /\ inflight' = inflight \ {t}
        /\ fetchLog' = [fetchLog EXCEPT ![t.fetch].fsError = TRUE]
        /\ UNCHANGED <<site, enqLog, startUrl, maxPagesToCrawl, idx, queue, visited, pageDataMap,
                       pc, cur, disk,
                       manifest>>

\* mutant: every discovered link is pushed, without the two membership tests
Enqueue_Unchecked(q, v, links) == q \o links

\* the links of a fetched page that go on the queue, in order
RECURSIVE Enqueue(_, _, _)
Enqueue(q, v, links) ==
    IF links = <<>> THEN q
    ELSE Enqueue(IF ~Has(v, links[1]) /\ ~Has(q, links[1]) THEN Append(q, links[1]) ELSE q,
                 v, Tail(links))

\* mutant: the page is written to disk as soon as it is fetched
FetchReturn_SavesPage ==
    /\ pc = "assets"
    /\ \A t \in inflight : t.fetch # Len(fetchLog)
    /\ visited' = SetAdd(visited, cur.url)
    /\ pageDataMap' = MapSet(pageDataMap, cur.url, cur.doc)
    /\ queue' = Enqueue(queue, visited', cur.links)
    /\ enqLog' = enqLog \o SubSeq(queue', Len(queue) + 1, Len(queue'))
    /\ fetchLog' = SetResult(fetchLog, TRUE, "ok")
    /\ disk' = DiskWrite(disk, getLocalFilePathForPage(cur.url, startUrl, archivePath),
                         "html", cur.url)
    /\ cur' = NoCur
    /\ pc' = "loop"
    /\ UNCHANGED <<site, startUrl, maxPagesToCrawl, idx, inflight, manifest>>

\* Promise.all(assetPromises) resolves; fetchPageAndAssets returns the document
\* and the links; the loop records the page and enqueues the new links
FetchReturn ==
    /\ pc = "assets"
    /\ \A t \in inflight : t.fetch # Len(fetchLog)
    /\ visited' = SetAdd(visited, cur.url)
    /\ pageDataMap' = MapSet(pageDataMap, cur.url, cur.doc)
    /\ queue' = Enqueue(queue, visited', cur.links)
    /\ enqLog' = enqLog \o SubSeq(queue', Len(queue) + 1, Len(queue'))
    /\ fetchLog' = SetResult(fetchLog, TRUE, "ok")
    /\ cur' = NoCur
    /\ pc' = "loop"
    /\ UNCHANGED <<site, startUrl, maxPagesToCrawl, idx, inflight, disk, manifest>>

\* the loop condition is false: pass 1 is over
EndPass1 ==
    /\ pc = "loop"
    /\ ~LoopCondition(queue, visited, maxPagesToCrawl)
    /\ pc' = "pass2"
    /\ idx' = 1
    /\ UNCHANGED <<site, enqLog, startUrl, maxPagesToCrawl, queue, visited, pageDataMap, cur,
                   inflight, disk,
                   manifest, fetchLog>>

\* ------------------------------------------------- pass 2 (rewrite and save)
\* mutant: a same-domain link counts as archived without looking at the visited set
IsArchived_HostOnly(absoluteLinkUrl, start, v) ==
    ParseUrl(absoluteLinkUrl).hostname = ParseUrl(start).hostname

\* the test that sends an anchor to a saved page rather than to the live site
IsArchived(absoluteLinkUrl, start, v) ==
    ParseUrl(absoluteLinkUrl).hostname = ParseUrl(start).hostname /\ Has(v, absoluteLinkUrl)

\* the body of $('a').each of pass 2 for one element of the page currentUrl
RewriteAnchor(el, currentUrl, start, v) ==
    LET href == el.ref
        localPagePath == getLocalFilePathForPage(currentUrl, start, archivePath)
        Local(relativePath) ==
            [el EXCEPT !.ref = IF relativePath = <<>> THEN <<".", "/", "index.html">>
                                ELSE relativePath,
                       !.rew = "local"]
        Link(absoluteLinkUrl) ==
            IF IsArchived(absoluteLinkUrl, start, v)
            THEN Once(Local,
                      PathRelative(DirName(localPagePath),
                                   getLocalFilePathForPage(absoluteLinkUrl, start,
                                                           archivePath)))
            ELSE [el EXCEPT !.ref = absoluteLinkUrl, !.rew = "live"]
    IN IF el.tag # "a" \/ href = <<>> \/ StartsWith(href, <<"#">>)
            \/ ~ResolveUrl(href, currentUrl).ok
       THEN el
       ELSE Once(Link, BeforeHash(Href(ResolveUrl(href, currentUrl))))

RewriteDoc(doc, currentUrl, start, v) ==
    [i \in 1..Len(doc) |-> RewriteAnchor(doc[i], currentUrl, start, v)]

\* the page of this iteration with its anchors rewritten (the document is
\* changed in place, so the snapshot store holds the rewritten document)
Rewritten ==
    [pageDataMap EXCEPT ![idx].doc =
        RewriteDoc(pageDataMap[idx].doc, pageDataMap[idx].url, startUrl, visited)]

\* one iteration of pass 2 whose ensureDir and writeFile succeed
SavePage ==
    /\ pc = "pass2"
    /\ idx <= Len(pageDataMap)
    /\ pageDataMap' = Rewritten
    /\ disk' = DiskWrite(disk,
                         getLocalFilePathForPage(pageDataMap[idx].url, startUrl, archivePath),
                         "html", pageDataMap[idx].url)
    /\ idx' = idx + 1
    /\ UNCHANGED <<site, enqLog, startUrl, maxPagesToCrawl, queue, visited, pc, cur, inflight,
                   manifest,
                   fetchLog>>

\* one iteration of pass 2 whose ensureDir or writeFile throws: startCrawl rejects
SavePageFails ==
    /\ pc = "pass2"
    /\ idx <= Len(pageDataMap)
    /\ pageDataMap' = Rewritten
    /\ pc' = "crashed"
    /\ UNCHANGED <<site, enqLog, startUrl, maxPagesToCrawl, idx, queue, visited, cur, inflight,
                   disk,
                   manifest, fetchLog>>

\* ---------------------------------------------------------------- manifest
\* Array.prototype.sort() without comparator, as an insertion sort
RECURSIVE Insert(_, _)
Insert(x, sorted) ==
    IF sorted = <<>> THEN <<x>>
    ELSE IF StrLess(sorted[1], x) THEN <<sorted[1]>> \o Insert(x, Tail(sorted))
    ELSE <<x>> \o sorted

RECURSIVE SortStrings(_)
SortStrings(s) ==
    IF s = <<>> THEN <<>> ELSE Insert(s[Len(s)], SortStrings(SubSeq(s, 1, Len(s) - 1)))

\* mutant: the visited set is listed without sorting
CrawledPages_Unsorted(v) == v

\* crawledPages: Array.from(visited).sort()
CrawledPages(v) == SortStrings(v)

ManifestPath == archivePath \o << <<"_manifest.json">> >>

\* mutant: the entrypoint is always the index.html of the session directory
ManifestOf_RootEntry(start, v) ==
    [startUrl |-> start,
     entrypoint |-> <<"index.html">>,
     crawledPages |-> CrawledPages(v)]

\* the manifest object of startCrawl
ManifestOf(start, v) ==
    [startUrl |-> start,
     entrypoint |-> PathRelative(archivePath,
                                 getLocalFilePathForPage(start, start, archivePath)),
     crawledPages |-> CrawledPages(v)]

\* mutant: the manifest is written without waiting for the loop of pass 2
WriteManifest_BeforePages ==
    /\ pc = "pass2"
    /\ manifest' = Append(manifest, ManifestOf(startUrl, visited))
    /\ disk' = DiskWrite(disk, ManifestPath, "manifest", startUrl)
    /\ pc' = "done"
    /\ UNCHANGED <<site, enqLog, startUrl, maxPagesToCrawl, idx, queue, visited, pageDataMap,
                   cur, inflight,
                   fetchLog>>

\* the for loop of pass 2 is over and fs.writeFile of the manifest succeeds
WriteManifest ==
    /\ pc = "pass2"
    /\ idx > Len(pageDataMap)
    /\ manifest' = Append(manifest, ManifestOf(startUrl, visited))
    /\ disk' = DiskWrite(disk, ManifestPath, "manifest", startUrl)
    /\ pc' = "done"
    /\ UNCHANGED <<site, enqLog, startUrl, maxPagesToCrawl, idx, queue, visited, pageDataMap,
                   cur, inflight,
                   fetchLog>>

\* fs.writeFile of the manifest throws: startCrawl rejects
WriteManifestFails ==
    /\ pc = "pass2"
    /\ idx > Len(pageDataMap)
    /\ pc' = "crashed"
    /\ UNCHANGED <<site, enqLog, startUrl, maxPagesToCrawl, idx, queue, visited, pageDataMap,
                   cur, inflight,
                   disk, manifest, fetchLog>>

\* ----------------------------------------------------------- specification
Next ==
    \/ Dequeue
    \/ GetFail
    \/ GetOk
    \/ AssetSaved
    \/ AssetFailed
    \/ AssetWriteFails
    \/ FetchReturn
    \/ EndPass1
    \/ SavePage
    \/ SavePageFails
    \/ WriteManifest
    \/ WriteManifestFails

Spec == Init /\ [][Next]_vars

\* Every continuation whose promise has settled is run by the event loop, and
\* every request is taken to settle.
FairSpec == Spec /\ WF_vars(Next)

\* ------------------------------------------- a smaller site, crawled deeper
\* The same session over a site of fewer kinds of element, served more of them
\* and crawled with a larger budget.
MaxDeepBudget == 4
MaxDeepElems == 4

DeepHrefs == { <<"h">>, <<"h", "/", "a">>, <<"h", "/", "a", "/">> }

DeepElems == {Elem("a", r) : r \in DeepHrefs} \cup {Elem("img", <<"h", "/", "b", ".", "c">>)}

DeepInit ==
    /\ site = [elems |-> DeepElems, maxElems |-> MaxDeepElems, urls |-> ParsedUrls]
    /\ startUrl \in StartUrls
    /\ maxPagesToCrawl \in 1..MaxDeepBudget
    /\ queue = <<startUrl>>
    /\ enqLog = <<startUrl>>
    /\ visited = <<>>
    /\ pageDataMap = <<>>
    /\ pc = "loop"
    /\ cur = NoCur
    /\ idx = 0
    /\ inflight = {}
    /\ disk = {}
    /\ manifest = <<>>
    /\ fetchLog = <<>>

DeepSpec == DeepInit /\ [][Next]_vars

\* ------------------------------------------------------------------ claims
Visited == Range(visited)

HtmlFiles == {f \in disk : f.kind = "html"}

Hostname(u) == ParseUrl(u).hostname

\* C1: in every reachable state of a session the visited set holds at most
\* maxPagesToCrawl URLs.
C1_BudgetBound == Cardinality(Visited) <= maxPagesToCrawl

\* C1 witness: the budget, not the queue, ended pass 1.
C1_Witness ==
    /\ pc = "pass2"
    /\ queue # <<>>
    /\ Cardinality(Visited) = maxPagesToCrawl
    /\ \E i \in 1..Len(fetchLog) : fetchLog[i].result = "null"

\* C2: no URL is handed to fetchPageAndAssets twice in one session.
C2_NoDuplicateFetch ==
    \A i, j \in 1..Len(fetchLog) : i # j => fetchLog[i].url # fetchLog[j].url

\* the URLs of the visited set, of the snapshots, of the saved pages and of the
\* manifest's crawledPages
ArchivedUrls ==
    Visited \cup {pageDataMap[k].url : k \in 1..Len(pageDataMap)}
            \cup {f.url : f \in HtmlFiles}
            \cup UNION {Range(m.crawledPages) : m \in Range(manifest)}

\* C3: every URL of the visited set, of a saved page and of the manifest's
\* crawledPages has the hostname of the start URL.
C3_DomainRestriction ==
    \A u \in ArchivedUrls : Hostname(u) = Hostname(startUrl)

\* C3 witness: the session is complete and a saved page links to another host.
C3_Witness ==
    /\ pc = "done"
    /\ Len(visited) >= 2
    /\ \E k \in 1..Len(pageDataMap) : \E e \in Range(pageDataMap[k].doc) :
           e.tag = "a" /\ e.orig = <<"x", "/", "a">>

\* C4: the crawledPages of the written manifest are the URLs of the final
\* visited set, each once, in ascending order of string comparison.
C4_ManifestFidelity ==
    \A m \in Range(manifest) :
        /\ Range(m.crawledPages) = Visited
        /\ Len(m.crawledPages) = Cardinality(Visited)
        /\ \A i \in 1..(Len(m.crawledPages) - 1) :
               StrLess(m.crawledPages[i], m.crawledPages[i + 1])

\* C4 witness: a manifest of several pages that were not visited in sorted order.
C4_Witness ==
    /\ pc = "done"
    /\ Len(manifest) = 1
    /\ Len(visited) >= 2
    /\ manifest[1].crawledPages # visited

\* the segments of a "/"-separated string
RECURSIVE SplitSlash(_)
SplitSlash(s) ==
    LET k == FirstIdx(s, {"/"})
    IN IF k > Len(s) THEN <<s>>
       ELSE <<SubSeq(s, 1, k - 1)>> \o SplitSlash(SubSeq(s, k + 1, Len(s)))

\* the file a relative reference names when followed from the directory dir
RECURSIVE FollowFrom(_, _)
FollowFrom(dir, segs) ==
    IF segs = <<>> THEN dir
    ELSE IF segs[1] = <<"..">> THEN FollowFrom(DirName(dir), Tail(segs))
    ELSE IF segs[1] = <<".">> THEN FollowFrom(dir, Tail(segs))
    ELSE FollowFrom(Append(dir, segs[1]), Tail(segs))

LocalPath(u) == getLocalFilePathForPage(u, startUrl, archivePath)

\* the file the rewritten href of element e of the page at url names
HrefFile(url, e) == FollowFrom(DirName(LocalPath(url)), SplitSlash(e.ref))

\* C5: when a session has completed, every href that pass 2 rewrote to a
\* relative path names the saved HTML file of a page of crawledPages, and that
\* file is on disk.
C5_TwoPassClosure ==
    pc = "done" =>
        \A k \in 1..Len(pageDataMap) : \A e \in Range(pageDataMap[k].doc) :
            e.rew = "local" =>
                /\ \E p \in Range(manifest[1].crawledPages) :
                       LocalPath(p) = HrefFile(pageDataMap[k].url, e)
                /\ \E f \in HtmlFiles : f.path = HrefFile(pageDataMap[k].url, e)

\* C5 witness: a completed session with a rewritten href that climbs out of the
\* page's directory and one that descends into another.
C5_Witness ==
    /\ pc = "done"
    /\ \E k \in 1..Len(pageDataMap) : \E e \in Range(pageDataMap[k].doc) :
           e.rew = "local" /\ e.ref[1] = ".."
    /\ \E k \in 1..Len(pageDataMap) : \E e \in Range(pageDataMap[k].doc) :
           e.rew = "local" /\ e.ref = <<"a", "/", "index.html">>

\* the URL an anchor as served on the page at url resolves to
TargetOf(url, e) == BeforeHash(Href(ResolveUrl(e.orig, url)))

\* the visited URLs that are the URL t (new URL(b).href = t)
FetchedAs(t) == {b \in Visited : Href(ParseUrl(b)) = t}

\* C6: when a session has completed, every anchor of a saved page that resolves
\* to a fetched page is rewritten to the relative path of that page's file, and
\* an anchor rewritten to an absolute URL resolves off-domain or to a page that
\* was not fetched.
C6_ArchivedLinksLocal ==
    pc = "done" =>
        \A k \in 1..Len(pageDataMap) : \A e \in Range(pageDataMap[k].doc) :
            (e.tag = "a" /\ ~StartsWith(e.orig, <<"#">>)
                 /\ ResolveUrl(e.orig, pageDataMap[k].url).ok) =>
                LET t == TargetOf(pageDataMap[k].url, e)
                IN /\ FetchedAs(t) # {} =>
                          /\ e.rew = "local"
                          /\ \E b \in FetchedAs(t) :
                                 HrefFile(pageDataMap[k].url, e) = LocalPath(b)
                   /\ e.rew = "live" =>
                          Hostname(t) # Hostname(startUrl) \/ FetchedAs(t) = {}

\* a step in which fetchPageAndAssets returns null
ReturnsNull ==
    /\ fetchLog # <<>>
    /\ Len(fetchLog') = Len(fetchLog)
    /\ fetchLog[Len(fetchLog)].result = "pending"
    /\ fetchLog'[Len(fetchLog)].result = "null"

SomeFetchFailed == \E i \in 1..Len(fetchLog) : fetchLog[i].result = "null"

\* C7: a step in which the Page Fetcher returns failure leaves the visited set
\* and the snapshot store unchanged, does not put the URL back on the queue and
\* returns to the loop test; and after a failure the session goes on to write
\* its manifest (or stops on a failed file write).
C7_PageFailureIsolated ==
    /\ [][ReturnsNull =>
            /\ visited' = visited
            /\ pageDataMap' = pageDataMap
            /\ queue' = queue
            /\ ~Has(queue', fetchLog[Len(fetchLog)].url)
            /\ pc' = "loop"]_vars
    /\ (SomeFetchFailed ~> ((pc = "done" /\ Len(manifest) = 1) \/ pc = "crashed"))

\* C7 witness: a completed session in which a fetch failed and a later one
\* succeeded.
C7_Witness ==
    /\ pc = "done"
    /\ Len(manifest) = 1
    /\ \E i, j \in 1..Len(fetchLog) :
           i < j /\ fetchLog[i].result = "null" /\ fetchLog[j].result = "ok"

\* C8: every call of fetchPageAndAssets whose GET of the document succeeded
\* returns success, and its page is in the visited set.
C8_AssetFailureIsolated ==
    \A i \in 1..Len(fetchLog) :
        (fetchLog[i].got /\ fetchLog[i].result # "pending") =>
            fetchLog[i].result = "ok" /\ Has(visited, fetchLog[i].url)

\* C9: if the fetch of the start URL fails, the visited set stays empty, no
\* HTML file is written, and the manifest of the completed session lists no
\* crawled page.
C9_ZeroPageSession ==
    (fetchLog # <<>> /\ fetchLog[1].result = "null") =>
        /\ visited = <<>>
        /\ HtmlFiles = {}
        /\ pc = "done" => Len(manifest) = 1 /\ manifest[1].crawledPages = <<>>

\* C9 witness: a session whose first fetch failed has written its manifest.
C9_Witness ==
    /\ pc = "done"
    /\ fetchLog[1].result = "null"
    /\ Len(manifest) = 1

\* C10: when a session has completed, there are as many HTML files as URLs in
\* crawledPages.
C10_OneFilePerPage ==
    pc = "done" => Cardinality(HtmlFiles) = Len(manifest[1].crawledPages)

\* ------------------------------------------- the path mapper on its own
\* getLocalFilePathForPage applied to the URLs of a site of nested paths.
MaxSegs == 3

SegNames == { <<"a">>, <<"b">>, <<"b", ".", "c">> }

\* the pathname /s1/.../sn, with a trailing slash when slash
PathOf(segs, slash) ==
    <<"/">> \o JoinSegs(segs) \o (IF slash /\ segs # <<>> THEN <<"/">> ELSE <<>>)

\* the page URLs handed to the mapper: their paths have at most MaxSegs segments
SiteUrls ==
    { <<host>> \o PathOf(segs, slash) :
        host \in HostTokens,
        segs \in UNION {[1..n -> SegNames] : n \in 0..MaxSegs},
        slash \in BOOLEAN }

PathInit ==
    /\ site = [elems |-> {}, maxElems |-> 0, urls |-> ParsedUrls]
    /\ enqLog = <<>>
    /\ startUrl \in StartUrls
    /\ maxPagesToCrawl = 1
    /\ queue = <<>>
    /\ visited = <<>>
    /\ pageDataMap = <<>>
    /\ pc = "map"
    /\ cur \in {[NoCur EXCEPT !.url = u] : u \in SiteUrls}
    /\ idx = 0
    /\ inflight = {}
    /\ disk = {}
    /\ manifest = <<>>
    /\ fetchLog = <<>>

\* the page cur.url is saved at the path the mapper gives it
MapPage ==
    /\ pc = "map"
    /\ disk' = DiskWrite(disk, getLocalFilePathForPage(cur.url, startUrl, archivePath),
                         "html", cur.url)
    /\ pc' = "mapped"
    /\ UNCHANGED <<site, enqLog, startUrl, maxPagesToCrawl, queue, visited, pageDataMap, cur,
                   idx, inflight,
                   manifest, fetchLog>>

PathNext == MapPage

PathSpec == PathInit /\ [][PathNext]_vars

\* the segments s1, ..., sn of the path of a URL
UrlSegments(u) ==
    LET p == StripSlashes(ParseUrl(u).pathname)
    IN IF p = <<>> THEN <<>> ELSE SplitSlash(p)

\* C11: a same-host URL of path segments s1/.../sn (n >= 1) is saved at
\* <archiveRoot>/s1/.../sn when sn has a file extension and at
\* <archiveRoot>/s1/.../sn/index.html when it has none.
C11_PathMirror ==
    \A f \in HtmlFiles :
        LET segs == UrlSegments(f.url)
        IN (Hostname(f.url) = Hostname(startUrl) /\ Len(segs) >= 1) =>
               f.path = archivePath \o segs
                            \o (IF ExtName(segs[Len(segs)]) = <<>>
                                THEN << <<"index.html">> >> ELSE <<>>)

\* an anchor that pass 2 rewrites on the page at url
Rewritable(e, url) ==
    /\ e.tag = "a"
    /\ e.orig # <<>>
    /\ ~StartsWith(e.orig, <<"#">>)
    /\ ResolveUrl(e.orig, url).ok

\* entry k of the snapshot store has its anchors rewritten and its file on disk
PagePersisted(k) ==
    /\ \E f \in HtmlFiles : f.path = LocalPath(pageDataMap[k].url)
    /\ \A e \in Range(pageDataMap[k].doc) :
           Rewritable(e, pageDataMap[k].url) => e.rew \in {"local", "live"}

\* C12: the manifest is written at most once, every page of the snapshot store
\* is rewritten and on disk when it is written, and once it is written no HTML
\* file is written and the manifest is not written again.
C12_ManifestOrdering ==
    /\ [](/\ Len(manifest) <= 1
          /\ manifest # <<>> => \A k \in 1..Len(pageDataMap) : PagePersisted(k))
    /\ [][manifest # <<>> => (manifest' = manifest /\ HtmlFiles' = HtmlFiles)]_vars

\* C12 witness: the manifest is written after two pages, one with a rewritten
\* anchor, were saved.
C12_Witness ==
    /\ Len(manifest) = 1
    /\ Cardinality(HtmlFiles) >= 2
    /\ \E k \in 1..Len(pageDataMap) : \E e \in Range(pageDataMap[k].doc) :
           e.rew \in {"local", "live"}

\* C13: a call of fetchPageAndAssets in which a directory creation or file
\* write failed does not return success: the failure is surfaced as a failure of
\* persisting that page.
C13_FsFailuresSurfaced ==
    \A i \in 1..Len(fetchLog) : fetchLog[i].fsError => fetchLog[i].result # "ok"

\* the position of the first occurrence of x in a sequence, 0 when there is none
FirstAt(seq, x) ==
    IF Has(seq, x) THEN CHOOSE i \in 1..Len(seq) : seq[i] = x /\ \A j \in 1..(i - 1) : seq[j] # x
    ELSE 0

\* the URLs fetchPageAndAssets was called for, in order
FetchOrder == [i \in 1..Len(fetchLog) |-> fetchLog[i].url]

\* the links of the page of entry k of the snapshot store, as it was served
ServedLinks(k) ==
    LinksOf([i \in 1..Len(pageDataMap[k].doc) |->
                 [pageDataMap[k].doc[i] EXCEPT !.ref = pageDataMap[k].doc[i].orig]],
            pageDataMap[k].url, startUrl)

\* the URLs within n links of the start URL, over the links of the saved pages
RECURSIVE Within(_)
Within(n) ==
    IF n = 0 THEN {startUrl}
    ELSE LET w == Within(n - 1)
         IN w \cup UNION {Range(ServedLinks(k)) :
                            k \in {j \in 1..Len(pageDataMap) : pageDataMap[j].url \in w}}

\* the link distance of a visited URL from the start URL
Distance(u) == CHOOSE n \in 0..Len(visited) : u \in Within(n) /\ \A m \in 0..(n - 1) : u \notin Within(m)

\* the frontier is first in, first out: URLs are fetched in the order of their
\* first enqueue
FifoByDiscovery ==
    \A u, v \in Range(enqLog) :
        (FirstAt(enqLog, u) < FirstAt(enqLog, v) /\ Has(FetchOrder, v)) =>
            /\ Has(FetchOrder, u)
            /\ FirstAt(FetchOrder, u) < FirstAt(FetchOrder, v)

\* C14: URLs are fetched in the order in which they were first enqueued, and the
\* pages of the visited set stand in non-decreasing link distance from the
\* start URL.
C14_BreadthFirst ==
    /\ FifoByDiscovery
    /\ \A i, j \in 1..Len(visited) : i < j => Distance(visited[i]) <= Distance(visited[j])

\* C15: over a session no URL is put on the queue twice, the seeding of the
\* start URL included.
C15_EnqueueOnce ==
    \A i, j \in 1..Len(enqLog) : i # j => enqLog[i] # enqLog[j]

\* the calls of fetchPageAndAssets for the URL u that returned success
OkFetches(u) == {i \in 1..Len(fetchLog) : fetchLog[i].url = u /\ fetchLog[i].result = "ok"}

\* u was fetched with success once and fetchPageAndAssets was not called for it
\* afterwards
FetchedOnce(u) ==
    /\ Cardinality(OkFetches(u)) = 1
    /\ \A i \in OkFetches(u) : \A j \in (i + 1)..Len(fetchLog) : fetchLog[j].url # u

\* C16: every URL of the visited set and of the manifest's crawledPages was
\* fetched with success exactly once, and the Page Fetcher was not called for
\* it after it entered the visited set.
C16_FetchedExactlyOnce ==
    /\ \A u \in Visited : FetchedOnce(u)
    /\ \A m \in Range(manifest) : \A u \in Range(m.crawledPages) : FetchedOnce(u)

\* C16 witness: the manifest lists a page whose first fetch failed and whose
\* second fetch succeeded.
C16_Witness ==
    /\ Len(manifest) = 1
    /\ \E u \in Range(manifest[1].crawledPages) : \E i \in 1..Len(fetchLog) :
           fetchLog[i].url = u /\ fetchLog[i].result = "null"

\* the same-domain URLs the anchors of entry k of the snapshot store resolve to
DiscoveredOn(k) ==
    LET url == pageDataMap[k].url
        anchors == {e \in Range(pageDataMap[k].doc) :
                       e.tag = "a" /\ e.orig # <<>> /\ ResolveUrl(e.orig, url).ok}
    IN {t \in {TargetOf(url, e) : e \in anchors} : Hostname(t) = Hostname(startUrl)}

\* the pairs <<k, u>> of an entry k of the snapshot store and a link u of its page
Discovered ==
    UNION {{<<k, u>> : u \in DiscoveredOn(k)} : k \in 1..Len(pageDataMap)}

\* C17: the first URL of the visited set is the start URL and every other one
\* is a discovered link of a page that entered the visited set before it;
\* every URL the Page Fetcher was called for, and every URL of crawledPages, is
\* the start URL or a discovered link of a page of the visited set.
C17_ReachabilityClosure ==
    LET found == Discovered
        linked == {startUrl} \cup {p[2] : p \in found}
    IN /\ visited # <<>> => visited[1] = startUrl
       /\ \A j \in 1..Len(visited) :
              /\ pageDataMap[j].url = visited[j]
              /\ j > 1 => \E i \in 1..(j - 1) : <<i, visited[j]>> \in found
       /\ \A q \in 1..Len(fetchLog) : fetchLog[q].url \in linked
       /\ \A m \in Range(manifest) : Range(m.crawledPages) \subseteq linked

\* C17 witness: a completed session in which a fetch failed and the third page
\* of the visited set was reached through the second only.
C17_Witness ==
    /\ pc = "done"
    /\ SomeFetchFailed
    /\ Len(visited) >= 3
    /\ visited[3] \notin DiscoveredOn(1)

\* startCrawl is in its frontier loop (pass 1)
InPass1 == pc \in {"loop", "get", "assets"}

\* the URLs of the snapshot store, in the order of its entries
StoreKeys == [k \in 1..Len(pageDataMap) |-> pageDataMap[k].url]

\* the anchors of a document that were classified (rewritten)
Classified(doc) == {e \in Range(doc) : e.tag = "a" /\ e.rew \in {"local", "live"}}

\* C18: during pass 1 no anchor is classified and no HTML file is written;
\* once pass 2 has started the loop is not entered again, the visited set, the
\* queue and the entries of the snapshot store do not change, a document
\* changes only by an anchor being classified, and an anchor is rewritten to a
\* local path exactly when its target is in the visited set.
C18_PhaseSeparation ==
    /\ [](InPass1 =>
            /\ HtmlFiles = {}
            /\ Classified(cur.doc) = {}
            /\ \A k \in 1..Len(pageDataMap) : Classified(pageDataMap[k].doc) = {})
    /\ [](\A k \in 1..Len(pageDataMap) : \A e \in Classified(pageDataMap[k].doc) :
            e.rew = "local" <=> Has(visited, TargetOf(pageDataMap[k].url, e)))
    /\ [][~InPass1 =>
            /\ ~InPass1'
            /\ visited' = visited
            /\ queue' = queue
            /\ StoreKeys' = StoreKeys
            /\ \A k \in 1..Len(pageDataMap) : \A i \in 1..Len(pageDataMap[k].doc) :
                   \/ pageDataMap'[k].doc[i] = pageDataMap[k].doc[i]
                   \/ /\ pageDataMap[k].doc[i].tag = "a"
                      /\ pageDataMap[k].doc[i].rew = "served"
                      /\ pageDataMap'[k].doc[i].orig = pageDataMap[k].doc[i].orig
                      /\ pageDataMap'[k].doc[i] \in Classified(pageDataMap'[k].doc)]_vars

\* C18 witness: pass 2 has saved a first page with an anchor rewritten to a
\* local path, has a second page to save, and the queue was not empty when
\* pass 1 ended.
C18_Witness ==
    /\ pc = "pass2"
    /\ idx = 2
    /\ Len(pageDataMap) >= 2
    /\ queue # <<>>
    /\ HtmlFiles # {}
    /\ \E e \in Classified(pageDataMap[1].doc) : e.rew = "local"

\* C19: an asset download is in flight only while the call of fetchPageAndAssets
\* that issued it has not returned.
C19_AssetJoin ==
    \A t \in inflight : fetchLog[t.fetch].result = "pending"

AssetFiles == {f \in disk : f.kind = "asset"}

\* no asset file saved for one page is replaced by an asset of another page
NoAssetReplaced ==
    [][\A f \in AssetFiles : \A g \in AssetFiles' : f.path = g.path => f.url = g.url]_vars

\* C20: distinct URLs of the visited set have distinct asset directories, and
\* no asset file saved for one page is replaced by an asset of another page.
C20_PageSpecificAssetDirs ==
    /\ [](\A u, v \in Visited : u # v => SafePageIdentifier(u) # SafePageIdentifier(v))
    /\ NoAssetReplaced

\* the call of fetchPageAndAssets in progress receives its document in this step
DocumentArrives ==
    /\ pc = "get"
    /\ fetchLog'[Len(fetchLog)].got

\* C21: an anchor whose href does not resolve is left as it was served; the
\* pages of a completed session have their other anchors rewritten and their
\* files on disk; and a call of fetchPageAndAssets that has received its
\* document does not return failure, whatever references the document holds.
C21_MalformedReferenceIsolated ==
    /\ [](\A k \in 1..Len(pageDataMap) : \A e \in Range(pageDataMap[k].doc) :
            (e.tag = "a" /\ ~ResolveUrl(e.orig, pageDataMap[k].url).ok) =>
                e.ref = e.orig /\ e.rew = "served")
    /\ [](pc = "done" => \A k \in 1..Len(pageDataMap) : PagePersisted(k))
    /\ [][DocumentArrives => pc' = "assets"]_vars

\* the part of C21 about anchors alone
MalformedAnchorIsolated ==
    /\ [](\A k \in 1..Len(pageDataMap) : \A e \in Range(pageDataMap[k].doc) :
            (e.tag = "a" /\ ~ResolveUrl(e.orig, pageDataMap[k].url).ok) =>
                e.ref = e.orig /\ e.rew = "served")
    /\ [](pc = "done" => \A k \in 1..Len(pageDataMap) : PagePersisted(k))

\* a URL whose fetch failed was fetched again later in the session
FailedAndFetchedAgain ==
    \E i, j \in 1..Len(fetchLog) :
        /\ i < j
        /\ fetchLog[i].url = fetchLog[j].url
        /\ fetchLog[i].result = "null"

\* C22: every session whose requests settle leaves the frontier loop for good
\* and then either writes its manifest or stops on a failed write of a page or
\* of the manifest.
C22_SessionTerminates ==
    /\ <>[](~InPass1)
    /\ <>((pc = "done" /\ Len(manifest) = 1) \/ pc = "crashed")

\* C22 witness: a session that wrote its manifest after a page had failed and
\* had been discovered and fetched again.
C22_Witness ==
    /\ pc = "done"
    /\ Len(manifest) = 1
    /\ FailedAndFetchedAgain

\* the states between two iterations of the while loop, and those of pass 2
\* and after it
AtBoundaryOrPass2 == pc = "loop" \/ ~InPass1

\* C23: between the iterations of the frontier loop and from the start of
\* pass 2 on, the snapshot store is keyed by the URLs of the visited set, in the
\* same order; and every URL of a written manifest's crawledPages has a
\* snapshot that pass 2 rewrote and wrote.
C23_StoreMatchesVisited ==
    [](/\ AtBoundaryOrPass2 => StoreKeys = visited
       /\ Len(manifest) = 1 =>
              \A i \in 1..Len(manifest[1].crawledPages) :
                  \E k \in 1..Len(pageDataMap) :
                      /\ pageDataMap[k].url = manifest[1].crawledPages[i]
                      /\ PagePersisted(k))

\* C23 witness: a manifest listing two pages, written by a session in which a
\* fetch failed.
C23_Witness ==
    /\ pc = "done"
    /\ Len(manifest) = 1
    /\ Len(manifest[1].crawledPages) >= 2
    /\ SomeFetchFailed

\* the file of the session directory that the entrypoint of manifest m names
EntrypointFile(m) == FollowFrom(archivePath, SplitSlash(m.entrypoint))

\* C24: a written manifest whose crawledPages is not empty lists the start
\* URL; the file its entrypoint names is in the session directory exactly when
\* crawledPages is not empty, and is then an HTML file written by pass 2.
C24_EntrypointValid ==
    [](\A m \in Range(manifest) :
        /\ m.crawledPages # <<>> => m.startUrl = startUrl /\ Has(m.crawledPages, startUrl)
        /\ (\E f \in disk : f.path = EntrypointFile(m)) <=> m.crawledPages # <<>>
        /\ \A f \in disk : f.path = EntrypointFile(m) => f.kind = "html")

\* C24 witness: a manifest of two pages whose entrypoint lies in a
\* subdirectory of the session directory.
C24_Witness ==
    /\ pc = "done"
    /\ Len(manifest) = 1
    /\ Len(manifest[1].crawledPages) >= 2
    /\ Len(EntrypointFile(manifest[1])) > Len(archivePath) + 1
    /\ \E f \in HtmlFiles : f.path = EntrypointFile(manifest[1])

\* the next iteration of the while loop would take the branch
\* "if (visited.has(currentUrl)) continue"
SkipBranchNext ==
    /\ pc = "loop"
    /\ LoopCondition(queue, visited, maxPagesToCrawl)
    /\ Has(visited, Head(queue))

\* C25: while the frontier loop runs, no URL is on the queue twice, no URL of
\* the queue is in the visited set, and the loop is never about to skip a
\* dequeued URL as already visited.
C25_QueueInvariant ==
    [](InPass1 =>
        /\ \A i, j \in 1..Len(queue) : i # j => queue[i] # queue[j]
        /\ \A i \in 1..Len(queue) : ~Has(visited, queue[i])
        /\ ~SkipBranchNext)

\* C25 witness: between two iterations, with a URL waiting on the queue, a
\* stored page links to another page that is already visited.
C25_Witness ==
    /\ pc = "loop"
    /\ Len(queue) >= 1
    /\ Len(visited) >= 2
    /\ \E k \in 1..Len(pageDataMap) :
           \E i \in 1..Len(pageDataMap[k].doc) :
               LET e == pageDataMap[k].doc[i]
                   r == ResolveUrl(e.orig, pageDataMap[k].url)
               IN /\ e.tag = "a"
                  /\ r.ok
                  /\ BeforeHash(Href(r)) # pageDataMap[k].url
                  /\ Has(visited, BeforeHash(Href(r)))

====
